---- MODULE Spec2Model ----
(***************************************************************************)
(* display-tui: the monitor geometry and layout-arrangement engine.        *)
(*                                                                         *)
(* f64 values (logical sizes, snap targets, canvas bounds) are kept as     *)
(* exact fixed-point integers counted in 1/Unit: the value v is the        *)
(* integer v * Unit.  Scales are f32 values counted in quarters (4 = 1.0). *)
(* An Option<T> is a sequence: <<>> is None, <<v>> is Some(v).             *)
(*                                                                         *)
(* Spec drives App::handle_key_event event by event, as the tests in       *)
(* main.rs do, without drawing a frame in between; a panic of a handler    *)
(* ends the process (crashed).  SpecCanvas is the rendering side           *)
(* (Monitor::get_monitors_canvas) over discovered monitor lists, and       *)
(* SpecResolution is sequences of Monitor::set_current_resolution calls.   *)
(* SpecRoundTrip is calls of Configuration::save_monitor_state and         *)
(* load_monitor_state over a state file kept as a JSON document, and       *)
(* SpecSnap is snaps in Move mode over layouts of three monitors in every  *)
(* list order.                                                             *)
(***************************************************************************)
EXTENDS Integers, Sequences, FiniteSets, TLC

\* ------------------------------------------------------------------ bounds
\* Number of key events handled in one session of the model.
MaxSteps == 4

\* --------------------------------------------------------------- constants
\* Fixed-point denominator of the f64 values.
Unit == 60
\* Denominator of the f32 scale values: scale s is the integer s * ScaleDen.
ScaleDen == 4
\* The 0.1 tolerance of the snap filter, in 1/Unit.
Tol == Unit \div 10
\* Free-movement step (keys K/J/H/L and Shift+arrow).
Step == 10
\* Margin around the bounding box of the canvas.
Margin == 50
\* Magnitude of the seeds of the canvas bounding box.
Sentinel == 10000

None == <<>>
Some(v) == <<v>>

Abs(v) == IF v < 0 THEN -v ELSE v

\* `v as f64` of an i32.
ToF64(i) == i * Unit

\* f64::round: to the nearest integer, halves away from zero; then `as i32`.
Round(d) == IF d >= 0 THEN (d + Unit \div 2) \div Unit
                      ELSE -((-d + Unit \div 2) \div Unit)

\* `f as i32`: truncation toward zero.
Trunc(d) == IF d >= 0 THEN d \div Unit ELSE -((-d) \div Unit)

\* ------------------------------------------------------- Monitor: modes
\* modes.iter().find(|m| m.current)
get_current_resolution(m) ==
    LET idx == {i \in 1..Len(m.modes) : m.modes[i].current}
    IN  IF idx = {} THEN None
        ELSE Some(m.modes[CHOOSE i \in idx : \A j \in idx : i <= j])

\* modes.iter().find(|m| m.preferred)
get_prefered_resolution(m) ==
    LET idx == {i \in 1..Len(m.modes) : m.modes[i].preferred}
    IN  IF idx = {} THEN None
        ELSE Some(m.modes[CHOOSE i \in idx : \A j \in idx : i <= j])

\* let mut mode = current; if mode.is_none() { mode = preferred }
ResolveMode(m) ==
    IF get_current_resolution(m) # None THEN get_current_resolution(m)
    ELSE get_prefered_resolution(m)

\* Rotation::from_transform: the rotation named by the transform descriptor.
from_transform(t) ==
    IF t = None THEN "Deg0"
    ELSE CASE t[1] = "90"  -> "Deg90"
           [] t[1] = "180" -> "Deg180"
           [] t[1] = "270" -> "Deg270"
           [] OTHER        -> "Deg0"

\* Faulty variant of RotatedSize: the rotation is ignored.
NoSwapMut(m, mode) == <<mode.width, mode.height>>

\* if rotation == Deg90 || rotation == Deg270 { (height, width) } else { (width, height) }
RotatedSize(m, mode) ==
    IF from_transform(m.transform) \in {"Deg90", "Deg270"}
    THEN <<mode.height, mode.width>>
    ELSE <<mode.width, mode.height>>

\* `pixels as f64 / scale as f64`, scale counted in 1/ScaleDen.
Logical(pixels, scale) == (pixels * Unit * ScaleDen) \div scale

\* Monitor::get_geometry.  panic: an unwrap of an absent position.
get_geometry(m) ==
    LET mode == ResolveMode(m) IN
    IF mode = None
    THEN [panic |-> FALSE, x |-> 0, y |-> 0, w |-> 0, h |-> 0]
    ELSE LET size  == RotatedSize(m, mode[1])
             scale == IF m.scale = None THEN ScaleDen ELSE m.scale[1]
         IN  IF m.position = None
             THEN [panic |-> TRUE, x |-> 0, y |-> 0, w |-> 0, h |-> 0]
             ELSE [panic |-> FALSE,
                   x |-> ToF64(m.position[1].x),
                   y |-> ToF64(m.position[1].y),
                   w |-> Logical(size[1], scale),
                   h |-> Logical(size[2], scale)]

\* Faulty variant of MonitorMove: a positive direction is dropped.
MoveNoBackMut(m, axis, direction) ==
    IF m.position = None \/ direction > 0 THEN m
    ELSE IF axis = "v"
         THEN [m EXCEPT !.position = Some([x |-> m.position[1].x, y |-> m.position[1].y + direction])]
         ELSE [m EXCEPT !.position = Some([x |-> m.position[1].x + direction, y |-> m.position[1].y])]

\* Monitor::move_vertical / Monitor::move_horizontal
MonitorMove(m, axis, direction) ==
    IF m.position = None THEN m
    ELSE IF axis = "v"
         THEN [m EXCEPT !.position = Some([x |-> m.position[1].x, y |-> m.position[1].y + direction])]
         ELSE [m EXCEPT !.position = Some([x |-> m.position[1].x + direction, y |-> m.position[1].y])]

\* Faulty variant of set_current_resolution: the other flags are not cleared.
SetCurrentKeepMut(m, index) ==
    IF index < Len(m.modes)
    THEN [m EXCEPT !.modes = [i \in 1..Len(m.modes) |->
             [m.modes[i] EXCEPT !.current = (m.modes[i].current \/ i = index + 1)]]]
    ELSE m

\* Monitor::set_current_resolution (index is 0-based, as in the source).
set_current_resolution(m, index) ==
    IF index < Len(m.modes)
    THEN [m EXCEPT !.modes = [i \in 1..Len(m.modes) |->
             [m.modes[i] EXCEPT !.current = (i = index + 1)]]]
    ELSE m

\* --------------------------------------------------------- Map: snapping
Near(g, axis) == IF axis = "v" THEN g.y ELSE g.x
Extent(g, axis) == IF axis = "v" THEN g.h ELSE g.w

\* targets.push(y); targets.push(y + h); targets.push(y + h / 2.0)
Edges(g, axis) ==
    <<Near(g, axis), Near(g, axis) + Extent(g, axis), Near(g, axis) + Extent(g, axis) \div 2>>

\* if i == selected_index || !monitor.enabled { continue; }
SkipTarget(monitors, selected_index, i) ==
    i = selected_index + 1 \/ ~monitors[i].enabled

\* let mut targets = vec![0.0]; then the edges of every other enabled monitor.
RECURSIVE TargetsFrom(_, _, _, _)
TargetsFrom(monitors, selected_index, axis, i) ==
    IF i > Len(monitors) THEN <<>>
    ELSE (IF SkipTarget(monitors, selected_index, i) THEN <<>>
          ELSE Edges(get_geometry(monitors[i]), axis))
         \o TargetsFrom(monitors, selected_index, axis, i + 1)

SnapTargets(monitors, selected_index, axis) ==
    <<0>> \o TargetsFrom(monitors, selected_index, axis, 1)

\* let sources = vec![sy, sy + sh, sy + sh / 2.0];
SnapSources(monitors, selected_index, axis) ==
    Edges(get_geometry(monitors[selected_index + 1]), axis)

\* An unwrap of an absent position inside one of the get_geometry calls.
SnapPanics(monitors, selected_index) ==
    \E i \in 1..Len(monitors) :
        /\ (i = selected_index + 1 \/ ~SkipTarget(monitors, selected_index, i))
        /\ get_geometry(monitors[i]).panic

\* (direction < 0 && diff < -0.1) || (direction > 0 && diff > 0.1)
InDirection(direction, diff) ==
    (direction < 0 /\ diff < -Tol) \/ (direction > 0 /\ diff > Tol)

\* Faulty variant of Closer: the comparison is reversed.
FartherMut(diff, current) == Abs(diff) > Abs(current)

\* if diff.abs() < current.abs() { best_delta = Some(diff); }
Closer(diff, current) == Abs(diff) < Abs(current)

NoBest == [found |-> FALSE, diff |-> 0, s |-> 0, t |-> 0]

\* for s in &sources { for t in &targets { ... } }: pair k of the source-major
\* order, carrying best_delta (and which pair set it).
RECURSIVE ScanPairs(_, _, _, _, _)
ScanPairs(sources, targets, direction, k, best) ==
    IF k > Len(sources) * Len(targets) THEN best
    ELSE LET s    == ((k - 1) \div Len(targets)) + 1
             t    == ((k - 1) % Len(targets)) + 1
             diff == targets[t] - sources[s]
             take == /\ InDirection(direction, diff)
                     /\ (~best.found \/ Closer(diff, best.diff))
         IN  ScanPairs(sources, targets, direction, k + 1,
                       IF take THEN [found |-> TRUE, diff |-> diff, s |-> s, t |-> t]
                       ELSE best)

\* Faulty variant of best_delta: the first valid pair of the scan is taken.
FirstValidMut(monitors, selected_index, axis, direction) ==
    LET sources == SnapSources(monitors, selected_index, axis)
        targets == SnapTargets(monitors, selected_index, axis)
        S(k)    == ((k - 1) \div Len(targets)) + 1
        T(k)    == ((k - 1) % Len(targets)) + 1
        valid   == {k \in 1..(Len(sources) * Len(targets)) :
                       InDirection(direction, targets[T(k)] - sources[S(k)])}
    IN  IF valid = {} THEN NoBest
        ELSE LET k == CHOOSE v \in valid : \A w \in valid : v <= w
             IN  [found |-> TRUE, diff |-> targets[T(k)] - sources[S(k)],
                  s |-> S(k), t |-> T(k)]

\* The best_delta left by the two loops of snap_vertical / snap_horizontal.
best_delta(monitors, selected_index, axis, direction) ==
    ScanPairs(SnapSources(monitors, selected_index, axis),
              SnapTargets(monitors, selected_index, axis), direction, 1, NoBest)

\* Faulty variant of SnapMonitors: the delta is applied to every monitor.
SnapAllMut(monitors, selected_index, axis, direction) ==
    LET best == best_delta(monitors, selected_index, axis, direction) IN
    IF SnapPanics(monitors, selected_index) \/ ~best.found THEN monitors
    ELSE [i \in 1..Len(monitors) |-> MonitorMove(monitors[i], axis, Round(best.diff))]

\* Map::snap_vertical / Map::snap_horizontal on the monitor list: the list after
\* the snap (a panic leaves the list as it was).
SnapMonitors(monitors, selected_index, axis, direction) ==
    LET best == best_delta(monitors, selected_index, axis, direction) IN
    IF SnapPanics(monitors, selected_index) \/ ~best.found THEN monitors
    ELSE [monitors EXCEPT ![selected_index + 1] =
             MonitorMove(@, axis, Round(best.diff))]

\* Map::move_vertical / Map::move_horizontal on the monitor list.
MoveMonitors(monitors, selected_index, axis, direction) ==
    [monitors EXCEPT ![selected_index + 1] = MonitorMove(@, axis, direction)]

\* ------------------------------------------------- Monitor: canvas bounds
\* The rectangle of one enabled monitor inside the loop of
\* get_monitors_canvas.  panic: an unwrap of an absent mode, position or scale.
CanvasRect(m) ==
    IF ResolveMode(m) = None \/ m.position = None \/ m.scale = None
    THEN [panic |-> TRUE, left |-> 0, right |-> 0, bottom |-> 0, top |-> 0]
    ELSE LET size   == RotatedSize(m, ResolveMode(m)[1])
             left   == ToF64(m.position[1].x)
             bottom == ToF64(m.position[1].y)
         IN  [panic  |-> FALSE,
              left   |-> left,
              right  |-> left + Logical(size[1], m.scale[1]),
              bottom |-> bottom,
              top    |-> bottom + Logical(size[2], m.scale[1])]

\* for monitor in monitors { if !monitor.enabled { continue; } ... }
RECURSIVE CanvasFold(_, _, _)
CanvasFold(monitors, i, box) ==
    IF i > Len(monitors) \/ box.panic THEN box
    ELSE IF ~monitors[i].enabled THEN CanvasFold(monitors, i + 1, box)
    ELSE LET r == CanvasRect(monitors[i]) IN
         CanvasFold(monitors, i + 1,
            [panic  |-> r.panic,
             left   |-> IF r.left < box.left THEN r.left ELSE box.left,
             bottom |-> IF r.bottom < box.bottom THEN r.bottom ELSE box.bottom,
             right  |-> IF r.right > box.right THEN r.right ELSE box.right,
             top    |-> IF r.top > box.top THEN r.top ELSE box.top])

\* let mut left = 10000.0; bottom = 10000.0; right = -10000.0; top = -10000.0;
CanvasSeed ==
    [panic |-> FALSE, left |-> ToF64(Sentinel), bottom |-> ToF64(Sentinel),
     right |-> ToF64(-Sentinel), top |-> ToF64(-Sentinel)]

\* Monitor::get_monitors_canvas
get_monitors_canvas(monitors) ==
    LET box    == CanvasFold(monitors, 1, CanvasSeed)
        left   == box.left - ToF64(Margin)
        bottom == box.bottom - ToF64(Margin)
        right  == box.right + ToF64(Margin)
        top    == box.top + ToF64(Margin)
    IN  [panic    |-> box.panic,
         top      |-> Trunc(top),
         x_bounds |-> <<left, right>>,
         y_bounds |-> <<bottom, top>>,
         offset_y |-> IF bottom < 0 THEN Trunc(-bottom) ELSE 0]

\* ------------------------------------------------------- Config exporter
\* rotation.to_hyprland(): the compositor's token of a rotation.
to_hyprland(rotation) ==
    CASE rotation = "Deg90"  -> 1
      [] rotation = "Deg180" -> 2
      [] rotation = "Deg270" -> 3
      [] OTHER               -> 0

\* Monitor::to_hyprland_config.  panic: the expect on the preferred mode, or
\* the unwrap of an absent position.
to_hyprland_config(m) ==
    LET mode == ResolveMode(m)
        off  == [name |-> m.name, disabled |-> TRUE, width |-> 0, height |-> 0,
                 refresh |-> 0, x |-> 0, y |-> 0, scale |-> 0, transform |-> 0]
    IN  IF mode = None THEN [panic |-> TRUE, line |-> off]
        ELSE IF ~m.enabled THEN [panic |-> FALSE, line |-> off]
        ELSE IF m.position = None THEN [panic |-> TRUE, line |-> off]
        ELSE [panic |-> FALSE,
              line |-> [name |-> m.name, disabled |-> FALSE,
                        width |-> mode[1].width, height |-> mode[1].height,
                        refresh |-> mode[1].refresh,
                        x |-> m.position[1].x, y |-> m.position[1].y,
                        scale |-> IF m.scale = None THEN ScaleDen ELSE m.scale[1],
                        transform |-> to_hyprland(from_transform(m.transform))]]

\* The loop of save_hyprland_config: the lines written before the first panic of
\* to_hyprland_config or the first failing writeln (the one after `written` lines).
RECURSIVE ConfigLines(_, _, _)
ConfigLines(monitors, i, written) ==
    IF i > Len(monitors) \/ i > written \/ to_hyprland_config(monitors[i]).panic
    THEN <<>>
    ELSE <<to_hyprland_config(monitors[i]).line>> \o ConfigLines(monitors, i + 1, written)

\* Monitor::save_hyprland_config under the I/O outcome io: "open" fails the
\* open, <<n>> lets n writeln calls succeed.  ok: Ok(()) was returned.
save_hyprland_config(monitors, old, openOk, written) ==
    IF ~openOk THEN [ok |-> FALSE, file |-> old]
    ELSE LET lines == ConfigLines(monitors, 1, written)
         IN  [ok |-> Len(lines) = Len(monitors), file |-> Some(lines)]

\* Configuration::save_monitor_state: the Vec<MonitorState> built from the list.
MonitorStates(monitors) ==
    [i \in 1..Len(monitors) |->
        [name |-> monitors[i].name, position |-> monitors[i].position,
         scale |-> monitors[i].scale]]

\* JSON documents as serde_json writes and reads them: a value is null, a
\* number, a string, an array of values, or an object of (key, value) members.
JNull == [kind |-> "null", num |-> 0, str |-> "", items |-> <<>>]
JNum(n) == [kind |-> "number", num |-> n, str |-> "", items |-> <<>>]
JStr(s) == [kind |-> "string", num |-> 0, str |-> s, items |-> <<>>]
JArr(items) == [kind |-> "array", num |-> 0, str |-> "", items |-> items]
JObj(members) == [kind |-> "object", num |-> 0, str |-> "", items |-> members]
Member(key, value) == [key |-> key, value |-> value]

\* derive(Serialize) of Position and of MonitorState: one member per field, in
\* declaration order; None is written as null.
PositionToJson(position) ==
    IF position = None THEN JNull
    ELSE JObj(<<Member("x", JNum(position[1].x)), Member("y", JNum(position[1].y))>>)

\* Faulty variant of MonitorStateToJson: the scale is never written.
ScaleDroppedMut(st) ==
    JObj(<<Member("name", JStr(st.name)),
           Member("position", PositionToJson(st.position)),
           Member("scale", JNull)>>)

MonitorStateToJson(st) ==
    JObj(<<Member("name", JStr(st.name)),
           Member("position", PositionToJson(st.position)),
           Member("scale", IF st.scale = None THEN JNull ELSE JNum(st.scale[1]))>>)

\* serde_json::to_string_pretty(&state) of the Vec<MonitorState>.
to_string_pretty(state) ==
    JArr([i \in 1..Len(state) |-> MonitorStateToJson(state[i])])

\* derive(Deserialize): the members of an object with the given key; a field is
\* read from its single member, a repeated key is an error, unknown keys are
\* skipped, and an Option field without member is None.
Members(obj, key) == {i \in 1..Len(obj.items) : obj.items[i].key = key}
Field(obj, key) == obj.items[CHOOSE i \in Members(obj, key) : TRUE].value

\* An i32 / f32 / String field: [ok, value].
NumberField(obj, key) ==
    IF Cardinality(Members(obj, key)) = 1 /\ Field(obj, key).kind = "number"
    THEN [ok |-> TRUE, value |-> Field(obj, key).num]
    ELSE [ok |-> FALSE, value |-> 0]

PositionFromJson(obj) ==
    IF obj.kind = "object" /\ NumberField(obj, "x").ok /\ NumberField(obj, "y").ok
    THEN [ok |-> TRUE, value |-> Some([x |-> NumberField(obj, "x").value,
                                       y |-> NumberField(obj, "y").value])]
    ELSE [ok |-> FALSE, value |-> None]

\* An Option<Position> field.
OptionPosition(obj) ==
    IF Members(obj, "position") = {} THEN [ok |-> TRUE, value |-> None]
    ELSE IF Cardinality(Members(obj, "position")) > 1 THEN [ok |-> FALSE, value |-> None]
    ELSE IF Field(obj, "position").kind = "null" THEN [ok |-> TRUE, value |-> None]
    ELSE PositionFromJson(Field(obj, "position"))

\* An Option<f32> field.
OptionScale(obj) ==
    IF Members(obj, "scale") = {} THEN [ok |-> TRUE, value |-> None]
    ELSE IF Cardinality(Members(obj, "scale")) > 1 THEN [ok |-> FALSE, value |-> None]
    ELSE IF Field(obj, "scale").kind = "null" THEN [ok |-> TRUE, value |-> None]
    ELSE IF Field(obj, "scale").kind = "number"
         THEN [ok |-> TRUE, value |-> Some(Field(obj, "scale").num)]
         ELSE [ok |-> FALSE, value |-> None]

MonitorStateFromJson(obj) ==
    IF /\ obj.kind = "object"
       /\ Cardinality(Members(obj, "name")) = 1 /\ Field(obj, "name").kind = "string"
       /\ OptionPosition(obj).ok /\ OptionScale(obj).ok
    THEN [ok |-> TRUE,
          value |-> [name |-> Field(obj, "name").str,
                     position |-> OptionPosition(obj).value,
                     scale |-> OptionScale(obj).value]]
    ELSE [ok |-> FALSE,
          value |-> [name |-> "", position |-> None, scale |-> None]]

\* serde_json::from_str(&content).ok() as Vec<MonitorState>.
from_str(content) ==
    IF /\ content.kind = "array"
       /\ \A i \in 1..Len(content.items) : MonitorStateFromJson(content.items[i]).ok
    THEN Some([i \in 1..Len(content.items) |-> MonitorStateFromJson(content.items[i]).value])
    ELSE None

\* Configuration::load_monitor_state: None when the file does not exist.
load_monitor_state(file) ==
    IF file = None THEN None ELSE from_str(file[1])

\* Faulty variant of save_monitor_state: the file is left as it was.
SaveStateKeepMut(monitors, old, ioOk) == old

\* Configuration::save_monitor_state: the content of the state file afterwards.
save_monitor_state(monitors, old, ioOk) ==
    IF ioOk THEN Some(to_string_pretty(MonitorStates(monitors))) ELSE old

\* ------------------------------------------------------------- the session
VARIABLES monitors, selected_monitor, selected_resolution, selected_scale,
          mode, exit, crashed, state_file, config_file, canvas, loaded, last, steps

vars == <<monitors, selected_monitor, selected_resolution, selected_scale,
          mode, exit, crashed, state_file, config_file, canvas, loaded,
          last, steps>>

\* What the last handled key event did: the operation, its arguments, the
\* monitor list and selection it acted on, and best_delta of a snap; prev is
\* the same record of the event handled before it.  io is the outcome of the
\* file operations of the event: whether the config file could be opened, how
\* many writeln calls on it succeeded, whether the state file was written.
NoIo == [open |-> TRUE, written |-> 0, state |-> TRUE]
NoEvent ==
    [op |-> "init", axis |-> "-", direction |-> 0, best |-> NoBest,
     before |-> <<>>, selected |-> 0, io |-> NoIo]
EventIo(op, axis, direction, best, io) ==
    [op |-> op, axis |-> axis, direction |-> direction, best |-> best,
     before |-> monitors, selected |-> selected_monitor, io |-> io,
     prev |-> [f \in DOMAIN NoEvent |-> last[f]]]
Event(op, axis, direction, best) == EventIo(op, axis, direction, best, NoIo)

\* The event loop blocks for the next key while !exit; a panic ends the process.
Running == ~exit /\ ~crashed /\ steps < MaxSteps

Mode(w, h, p, c) ==
    [width |-> w, height |-> h, refresh |-> 60, preferred |-> p, current |-> c]
Pos(x, y) == Some([x |-> x, y |-> y])
Mon(name, enabled, modes, position, scale, transform) ==
    [name |-> name, enabled |-> enabled, modes |-> modes, position |-> position,
     scale |-> scale, transform |-> transform]

\* The scales offered by the Scale panel, counted in 1/ScaleDen.
ScaleOptions == <<2, 4, 6, 8>>

\* ---------------------------------------------------- discovered monitors
\* Monitor lists as discovery may report them.  The first family varies the
\* selected monitor A against one other monitor B: B with fractional logical
\* sizes (scale 2.0 and 1.5), rotated, disabled, without a position, without
\* a mode.
AMonitors ==
    {Mon("A", TRUE, <<Mode(4, 2, TRUE, TRUE)>>, position, scale, None) :
        position \in {Pos(0, 0), Pos(1, 3)},
        scale \in {None, Some(8)}}
      \cup {Mon("A", TRUE, <<Mode(3, 3, TRUE, FALSE), Mode(2, 4, FALSE, TRUE)>>,
                position, Some(8), Some("90")) :
                position \in {Pos(0, 0), Pos(1, 3)}}

BMonitors ==
    {Mon("B", TRUE, <<Mode(3, 3, TRUE, TRUE)>>, Pos(0, 0), Some(8), None),
     Mon("B", TRUE, <<Mode(4, 2, TRUE, FALSE)>>, Pos(2, 2), Some(6), None),
     Mon("B", TRUE, <<Mode(3, 2, TRUE, TRUE)>>, Pos(6, 0), Some(4), Some("270")),
     Mon("B", FALSE, <<Mode(3, 2, TRUE, TRUE)>>, Pos(2, 0), Some(4), None),
     Mon("B", TRUE, <<Mode(3, 2, TRUE, TRUE)>>, None, Some(4), None),
     Mon("B", TRUE, <<>>, None, None, None)}

\* spec.md section 8: A at x=0, B at x=200, both 100x100 at y=0.
ScenarioAB ==
    <<Mon("A", TRUE, <<Mode(100, 100, TRUE, TRUE)>>, Pos(0, 0), Some(4), None),
      Mon("B", TRUE, <<Mode(100, 100, TRUE, TRUE)>>, Pos(200, 0), Some(4), None)>>

\* main.rs, handle_mode_move_arrow_key_event: a monitor moved to y = 100.
ScenarioOrigin ==
    <<Mon("A", TRUE, <<Mode(100, 100, TRUE, TRUE)>>, Pos(0, 100), Some(4), None),
      Mon("B", FALSE, <<Mode(100, 100, TRUE, TRUE)>>, Pos(100, 0), Some(4), None)>>

\* Lists whose selected monitor is itself degraded, and a list of three.
OddLists ==
    {<<Mon("A", TRUE, <<Mode(4, 2, TRUE, TRUE)>>, None, Some(4), None),
       Mon("B", TRUE, <<Mode(3, 3, TRUE, TRUE)>>, Pos(0, 0), Some(4), None)>>,
     <<Mon("A", TRUE, <<>>, Pos(3, 3), Some(4), None),
       Mon("B", TRUE, <<Mode(3, 3, TRUE, TRUE)>>, Pos(1, 1), Some(4), None)>>,
     <<Mon("A", FALSE, <<>>, None, None, None),
       Mon("B", TRUE, <<Mode(3, 3, TRUE, TRUE)>>, Pos(1, 1), Some(4), None)>>,
     <<Mon("A", TRUE, <<Mode(4, 2, TRUE, TRUE)>>, Pos(7, 4), Some(4), None)>>,
     <<Mon("A", TRUE, <<Mode(4, 2, TRUE, TRUE)>>, Pos(4, 0), Some(4), None),
       Mon("B", TRUE, <<Mode(3, 3, TRUE, TRUE)>>, Pos(0, 0), Some(8), None),
       Mon("C", TRUE, <<Mode(2, 2, TRUE, TRUE)>>, Pos(9, 2), Some(4), None)>>,
     <<Mon("A", TRUE, <<Mode(4, 2, TRUE, TRUE)>>, Pos(4, 0), Some(4), None),
       Mon("B", TRUE, <<Mode(3, 3, TRUE, TRUE)>>, None, Some(8), None),
       Mon("C", TRUE, <<Mode(2, 2, TRUE, TRUE)>>, Pos(9, 2), Some(4), None)>>}

InitLists ==
    {<<a, b>> : a \in AMonitors, b \in BMonitors}
        \cup {ScenarioAB, ScenarioOrigin} \cup OddLists

\* App::default() with the discovered monitors, as the tests build it.
InitApp ==
    /\ selected_monitor = 0
    /\ selected_resolution = 0
    /\ selected_scale = 0
    /\ mode = "View"
    /\ exit = FALSE
    /\ crashed = FALSE
    /\ state_file = None
    /\ config_file = None
    /\ canvas = None
    /\ loaded = None
    /\ last = [op |-> "init", axis |-> "-", direction |-> 0, best |-> NoBest,
               before |-> <<>>, selected |-> 0, io |-> NoIo, prev |-> NoEvent]
    /\ steps = 0

Init ==
    /\ monitors \in InitLists
    /\ InitApp

\* ------------------------------------------------------------ key events
\* MonitorList::handle_events, 'k'/Up (+1) and 'j'/Down (-1), wrapping around.
ListSelect(d) ==
    /\ Running /\ mode = "View"
    /\ selected_monitor' = (selected_monitor + d + Len(monitors)) % Len(monitors)
    /\ last' = Event("select", "-", d, NoBest)
    /\ steps' = steps + 1
    /\ UNCHANGED <<monitors, selected_resolution, selected_scale, mode, exit,
                   crashed, state_file, config_file, canvas, loaded>>

\* MonitorList::handle_events, 'm' / 'r' / 's'.
EnterMode(m) ==
    /\ Running /\ mode = "View"
    /\ mode' = m
    /\ last' = Event("enter", m, 0, NoBest)
    /\ steps' = steps + 1
    /\ UNCHANGED <<monitors, selected_monitor, selected_resolution, selected_scale,
                   exit, crashed, state_file, config_file, canvas, loaded>>

\* Map::handle_events, 'k' 'j' 'h' 'l' and the unshifted arrows:
\* Map::snap_vertical / Map::snap_horizontal.
MapSnap(axis, direction) ==
    /\ Running /\ mode = "Move"
    /\ monitors' = SnapMonitors(monitors, selected_monitor, axis, direction)
    /\ crashed' = SnapPanics(monitors, selected_monitor)
    /\ last' = Event("snap", axis, direction,
                     best_delta(monitors, selected_monitor, axis, direction))
    /\ steps' = steps + 1
    /\ UNCHANGED <<selected_monitor, selected_resolution, selected_scale, mode,
                   exit, state_file, config_file, canvas, loaded>>

\* Map::handle_events, 'K' 'J' 'H' 'L' and the shifted arrows:
\* Map::move_vertical / Map::move_horizontal by -10 or +10.
MapMove(axis, direction) ==
    /\ Running /\ mode = "Move"
    /\ monitors' = MoveMonitors(monitors, selected_monitor, axis, direction)
    /\ last' = Event("move", axis, direction, NoBest)
    /\ steps' = steps + 1
    /\ UNCHANGED <<selected_monitor, selected_resolution, selected_scale, mode,
                   exit, crashed, state_file, config_file, canvas, loaded>>

\* Map::handle_events, any other key: nothing is done.
MapOtherKey ==
    /\ Running /\ mode = "Move"
    /\ last' = Event("key", "-", 0, NoBest)
    /\ steps' = steps + 1
    /\ UNCHANGED <<monitors, selected_monitor, selected_resolution, selected_scale,
                   mode, exit, crashed, state_file, config_file, canvas, loaded>>

\* Faulty variant of MapEsc: the mode is left as it is.
MapEscStayMut(ioOk) ==
    /\ Running /\ mode = "Move"
    /\ state_file' = save_monitor_state(monitors, state_file, ioOk)
    /\ last' = EventIo("esc", "Move", 0, NoBest, [NoIo EXCEPT !.state = ioOk])
    /\ steps' = steps + 1
    /\ UNCHANGED <<monitors, selected_monitor, selected_resolution, selected_scale,
                   mode, exit, crashed, config_file, canvas, loaded>>

\* Map::handle_events, Esc: Map::change_mode(View), which saves the state when
\* leaving Move mode and ignores the result.
MapEsc(ioOk) ==
    /\ Running /\ mode = "Move"
    /\ state_file' = save_monitor_state(monitors, state_file, ioOk)
    /\ mode' = "View"
    /\ last' = EventIo("esc", "Move", 0, NoBest, [NoIo EXCEPT !.state = ioOk])
    /\ steps' = steps + 1
    /\ UNCHANGED <<monitors, selected_monitor, selected_resolution, selected_scale,
                   exit, crashed, config_file, canvas, loaded>>

\* Resolutions::handle_events: 'j'/'k' move the selection over the modes.
ResolutionSelect(d) ==
    /\ Running /\ mode = "Resolution"
    /\ Len(monitors[selected_monitor + 1].modes) > 0
    /\ selected_resolution' =
          (selected_resolution + d + Len(monitors[selected_monitor + 1].modes))
              % Len(monitors[selected_monitor + 1].modes)
    /\ last' = Event("resolution_select", "-", d, NoBest)
    /\ steps' = steps + 1
    /\ UNCHANGED <<monitors, selected_monitor, selected_scale, mode, exit, crashed,
                   state_file, config_file, canvas, loaded>>

\* Resolutions::handle_events, ' ': set_current_resolution(selected_resolution).
ResolutionApply ==
    /\ Running /\ mode = "Resolution"
    /\ monitors' = [monitors EXCEPT ![selected_monitor + 1] =
                       set_current_resolution(@, selected_resolution)]
    /\ last' = Event("resolution_apply", "-", selected_resolution, NoBest)
    /\ steps' = steps + 1
    /\ UNCHANGED <<selected_monitor, selected_resolution, selected_scale, mode,
                   exit, crashed, state_file, config_file, canvas, loaded>>

\* Scale::handle_events: 'j'/'k' move the selection over the scale options.
ScaleSelect(d) ==
    /\ Running /\ mode = "Scale"
    /\ selected_scale' = (selected_scale + d + Len(ScaleOptions)) % Len(ScaleOptions)
    /\ last' = Event("scale_select", "-", d, NoBest)
    /\ steps' = steps + 1
    /\ UNCHANGED <<monitors, selected_monitor, selected_resolution, mode, exit,
                   crashed, state_file, config_file, canvas, loaded>>

\* Scale::handle_events, ' ': the selected option becomes the monitor's scale.
ScaleApply ==
    /\ Running /\ mode = "Scale"
    /\ monitors' = [monitors EXCEPT ![selected_monitor + 1].scale =
                       Some(ScaleOptions[selected_scale + 1])]
    /\ last' = Event("scale_apply", "-", selected_scale, NoBest)
    /\ steps' = steps + 1
    /\ UNCHANGED <<selected_monitor, selected_resolution, selected_scale, mode,
                   exit, crashed, state_file, config_file, canvas, loaded>>

\* Resolutions::handle_events / Scale::handle_events, Esc.
PanelEsc ==
    /\ Running /\ mode \in {"Resolution", "Scale"}
    /\ mode' = "View"
    /\ last' = Event("esc", mode, 0, NoBest)
    /\ steps' = steps + 1
    /\ UNCHANGED <<monitors, selected_monitor, selected_resolution, selected_scale,
                   exit, crashed, state_file, config_file, canvas, loaded>>

\* App::handle_key_event 'q': App::exit.
Quit(ioOk) ==
    /\ Running
    /\ state_file' = save_monitor_state(monitors, state_file, ioOk)
    /\ exit' = TRUE
    /\ last' = EventIo("quit", mode, 0, NoBest, [NoIo EXCEPT !.state = ioOk])
    /\ steps' = steps + 1
    /\ UNCHANGED <<monitors, selected_monitor, selected_resolution, selected_scale,
                   mode, crashed, config_file, canvas, loaded>>

\* App::handle_key_event 'w': App::write.  The expect on save_hyprland_config
\* panics on Err; a panic inside to_hyprland_config ends the process as well.
Write(openOk, written, ioOk) ==
    /\ Running
    /\ LET saved == save_hyprland_config(monitors, config_file, openOk, written) IN
       /\ config_file' = saved.file
       /\ crashed' = ~saved.ok
       /\ state_file' = IF saved.ok
                        THEN save_monitor_state(monitors, state_file, ioOk)
                        ELSE state_file
    /\ last' = EventIo("write", mode, 0, NoBest,
                       [open |-> openOk, written |-> written,
                        state |-> save_hyprland_config(monitors, config_file,
                                                       openOk, written).ok => ioOk])
    /\ steps' = steps + 1
    /\ UNCHANGED <<monitors, selected_monitor, selected_resolution, selected_scale,
                   mode, exit, canvas, loaded>>

Next ==
    \/ \E d \in {-1, 1} : ListSelect(d)
    \/ \E m \in {"Move", "Resolution", "Scale"} : EnterMode(m)
    \/ \E axis \in {"v", "h"}, direction \in {-1, 1} : MapSnap(axis, direction)
    \/ \E axis \in {"v", "h"}, direction \in {-Step, Step} : MapMove(axis, direction)
    \/ MapOtherKey
    \/ \E ioOk \in BOOLEAN : MapEsc(ioOk)
    \/ \E d \in {-1, 1} : ResolutionSelect(d)
    \/ ResolutionApply
    \/ \E d \in {-1, 1} : ScaleSelect(d)
    \/ ScaleApply
    \/ PanelEsc
    \/ \E ioOk \in BOOLEAN : Quit(ioOk)
    \/ \E openOk \in BOOLEAN :
          \E written \in (IF openOk THEN 0..Len(monitors) ELSE {0}) :
             \E ioOk \in (IF written = Len(monitors) THEN BOOLEAN ELSE {TRUE}) :
                Write(openOk, written, ioOk)

Spec == Init /\ [][Next]_vars

\* ------------------------------------------- set_current_resolution calls
\* Largest index passed to set_current_resolution, and longest mode list.
MaxIndex == 3
MaxModes == 3

\* Mode lists with at most one mode flagged current (c = 0: none).
ModeLists ==
    {[i \in 1..n |-> Mode(i + 1, 1, i = 1, i = c)] : n \in 0..MaxModes, c \in 0..MaxModes}

InitResolution ==
    /\ monitors \in {<<Mon("A", TRUE, modes, Pos(0, 0), None, None)>> : modes \in ModeLists}
    /\ InitApp

\* A call of Monitor::set_current_resolution(index) on the monitor.
SetCurrentResolution(index) ==
    /\ steps < MaxSteps
    /\ monitors' = [monitors EXCEPT ![1] = set_current_resolution(@, index)]
    /\ last' = Event("set_current_resolution", "-", index, NoBest)
    /\ steps' = steps + 1
    /\ UNCHANGED <<selected_monitor, selected_resolution, selected_scale, mode,
                   exit, crashed, state_file, config_file, canvas, loaded>>

NextResolution == \E index \in 0..MaxIndex : SetCurrentResolution(index)

SpecResolution == InitResolution /\ [][NextResolution]_vars

\* ------------------------------------------------------------- rendering
\* Monitors as the renderer may meet them: far from the origin, disabled,
\* without a scale, a position or a mode.
CanvasMonitors ==
    {Mon("A", enabled, <<Mode(3, 2, TRUE, TRUE)>>, position, scale, transform) :
        enabled \in BOOLEAN,
        position \in {Pos(0, 0), Pos(5, -20), Pos(-20000, 3), Pos(20000, -7)},
        scale \in {None, Some(4), Some(8)},
        transform \in {None, Some("90")}}
      \cup {Mon("A", TRUE, <<Mode(3, 2, TRUE, TRUE)>>, None, Some(4), None),
            Mon("A", TRUE, <<>>, Pos(1, 1), Some(4), None)}

CanvasOthers ==
    {Mon("B", TRUE, <<Mode(5, 3, TRUE, FALSE), Mode(2, 4, FALSE, TRUE)>>, Pos(-4, 6), Some(8), Some("270")),
     Mon("B", FALSE, <<Mode(5, 3, TRUE, FALSE)>>, Pos(-300, 400), Some(4), None),
     Mon("B", TRUE, <<Mode(5, 3, TRUE, FALSE)>>, Pos(30000, 15000), Some(6), None)}

CanvasLists ==
    {<<>>} \cup {<<a>> : a \in CanvasMonitors}
           \cup {<<a, b>> : a \in CanvasMonitors, b \in CanvasOthers}

InitCanvas ==
    /\ monitors \in CanvasLists
    /\ InitApp

\* Map::render: the canvas of the frame, from Monitor::get_monitors_canvas.
Render ==
    /\ ~crashed /\ canvas = None
    /\ IF get_monitors_canvas(monitors).panic
       THEN crashed' = TRUE /\ canvas' = canvas
       ELSE crashed' = FALSE /\ canvas' = Some(get_monitors_canvas(monitors))
    /\ last' = Event("render", "-", 0, NoBest)
    /\ UNCHANGED <<monitors, selected_monitor, selected_resolution, selected_scale,
                   mode, exit, state_file, config_file, loaded, steps>>

NextCanvas == Render

SpecCanvas == InitCanvas /\ [][NextCanvas]_vars

\* ================================================================= claims
\* The three alignment points of a monitor on an axis: near edge, far edge,
\* center, from its geometry.
AlignPoints(m, axis) ==
    LET g == get_geometry(m) IN
    IF axis = "v" THEN {g.y, g.y + g.h, g.y + g.h \div 2}
    ELSE {g.x, g.x + g.w, g.x + g.w \div 2}

OtherEnabled(mons, sel) ==
    {i \in 1..Len(mons) : i # sel + 1 /\ mons[i].enabled}

\* All diff = target - source in the requested direction beyond the tolerance.
ValidDisplacements(mons, sel, axis, direction) ==
    LET S == AlignPoints(mons[sel + 1], axis)
        T == {0} \cup UNION {AlignPoints(mons[i], axis) : i \in OtherEnabled(mons, sel)}
    IN  {d \in {t - s : s \in S, t \in T} :
            IF direction < 0 THEN 10 * d < -Unit ELSE 10 * d > Unit}

Coordinate(m, axis) == IF axis = "v" THEN m.position[1].y ELSE m.position[1].x

\* A snap was the last event handled and it returned.
SnapReturned == last.op = "snap" /\ ~crashed

\* C1: a snap moves the selected monitor by the rounded minimum-magnitude
\* valid displacement (no valid displacement has a smaller absolute value),
\* and leaves the list unchanged when there is no valid displacement; in the
\* scenario of spec.md section 8, B lands at x = 100.
C1_SnapMinimal ==
    /\ SnapReturned =>
         LET V == ValidDisplacements(last.before, last.selected, last.axis, last.direction)
             b == last.before[last.selected + 1]
             a == monitors[last.selected + 1]
         IN  IF V = {} \/ b.position = None THEN monitors = last.before
             ELSE \E d \in V :
                    /\ \A e \in V : Abs(d) <= Abs(e)
                    /\ 2 * Abs((Coordinate(a, last.axis) - Coordinate(b, last.axis)) * Unit - d) <= Unit
                    /\ \A i \in 1..Len(monitors) :
                          monitors[i] = IF i = last.selected + 1
                                        THEN [b EXCEPT !.position = a.position]
                                        ELSE last.before[i]
                    /\ Coordinate(a, IF last.axis = "v" THEN "h" ELSE "v")
                          = Coordinate(b, IF last.axis = "v" THEN "h" ELSE "v")
    /\ (SnapReturned /\ last.before = ScenarioAB /\ last.selected = 1
           /\ last.axis = "h" /\ last.direction = -1)
         => monitors[2].position = Pos(100, 0)

C1_Witness ==
    /\ SnapReturned /\ last.before = ScenarioAB /\ last.selected = 1
    /\ last.axis = "h" /\ last.direction = -1
    /\ monitors[2].position = Pos(100, 0)

\* C2: a snap that immediately follows a snap of the same axis and direction
\* which applied a delta does not select the same (source, target) pair again
\* (stated for a selected monitor that has a mode, hence a real rectangle).
C2_SnapIdempotent ==
    (/\ SnapReturned /\ last.prev.op = "snap"
     /\ last.axis = last.prev.axis /\ last.direction = last.prev.direction
     /\ ResolveMode(last.before[last.selected + 1]) # None
     /\ last.prev.best.found /\ last.before # last.prev.before
     /\ last.best.found)
      => ~(last.best.s = last.prev.best.s /\ last.best.t = last.prev.best.t)

\* C3: in Move mode a free move by d followed by a free move by -d on the
\* same axis returns the selected monitor to its original position.
C3_FreeMoveReversible ==
    (/\ last.op = "move" /\ last.prev.op = "move"
     /\ last.axis = last.prev.axis /\ last.direction = -last.prev.direction
     /\ last.prev.before[last.selected + 1].position # None)
      => monitors[last.selected + 1].position
            = last.prev.before[last.selected + 1].position

C3_Witness ==
    /\ last.op = "move" /\ last.prev.op = "move"
    /\ last.axis = last.prev.axis /\ last.direction = -last.prev.direction
    /\ last.prev.before[last.selected + 1].position # None
    /\ last.prev.selected = 1
    /\ monitors = last.prev.before

\* C5: the origin is always a snap target.  From a near edge at c > 0 a snap
\* with direction -1 lands the near edge at 0 when no other monitor is
\* enabled; with other enabled monitors it applies some move and never moves
\* the near edge below 0.
C5_OriginTarget ==
    (/\ SnapReturned /\ last.direction = -1
     /\ ResolveMode(last.before[last.selected + 1]) # None
     /\ Coordinate(last.before[last.selected + 1], last.axis) > 0)
      => LET b == last.before[last.selected + 1]
             a == monitors[last.selected + 1]
         IN  IF OtherEnabled(last.before, last.selected) = {}
             THEN Coordinate(a, last.axis) = 0
             ELSE /\ Coordinate(a, last.axis) # Coordinate(b, last.axis)
                  /\ Coordinate(a, last.axis) >= 0

\* The enabled monitors other than the selected one that have no position.
Positionless(mons, sel) ==
    {i \in OtherEnabled(mons, sel) : mons[i].position = None}

\* The list without those monitors, and the index of the selected monitor in it.
RECURSIVE Without(_, _, _)
Without(mons, drop, i) ==
    IF i > Len(mons) THEN <<>>
    ELSE (IF i \in drop THEN <<>> ELSE <<mons[i]>>) \o Without(mons, drop, i + 1)

IndexWithout(drop, sel) == sel - Cardinality({i \in drop : i < sel + 1})

\* C10: a snap over a list holding another enabled monitor without a position
\* completes, and moves the selected monitor as the same snap does with that
\* monitor removed from the list.
C10_SkipPositionless ==
    (last.op = "snap" /\ Positionless(last.before, last.selected) # {})
      => LET drop == Positionless(last.before, last.selected)
             sel  == IndexWithout(drop, last.selected)
         IN  /\ ~crashed
             /\ monitors[last.selected + 1] =
                   SnapMonitors(Without(last.before, drop, 1), sel,
                                last.axis, last.direction)[sel + 1]

CurrentFlags(m) == {i \in 1..Len(m.modes) : m.modes[i].current}

SetCurrentCalled == last.op = "set_current_resolution"

\* C4: at most one mode is flagged current after any sequence of
\* set_current_resolution calls; an index in range leaves exactly the mode at
\* that index flagged, an index out of range leaves every flag unchanged.
C4_OneCurrentMode ==
    /\ Cardinality(CurrentFlags(monitors[1])) <= 1
    /\ SetCurrentCalled =>
         IF last.direction < Len(last.before[1].modes)
         THEN CurrentFlags(monitors[1]) = {last.direction + 1}
         ELSE CurrentFlags(monitors[1]) = CurrentFlags(last.before[1])
    /\ SetCurrentCalled =>
         \A i \in 1..Len(monitors[1].modes) :
            [monitors[1].modes[i] EXCEPT !.current = FALSE]
               = [last.before[1].modes[i] EXCEPT !.current = FALSE]

\* An out-of-range call right after an in-range call that moved the flag.
C4_Witness ==
    /\ SetCurrentCalled /\ last.prev.op = "set_current_resolution"
    /\ last.direction >= Len(monitors[1].modes)
    /\ last.prev.direction < Len(monitors[1].modes)
    /\ CurrentFlags(last.prev.before[1]) # {}
    /\ CurrentFlags(last.prev.before[1]) # CurrentFlags(monitors[1])
    /\ CurrentFlags(monitors[1]) = {last.prev.direction + 1}

Enabled(mons) == {i \in 1..Len(mons) : mons[i].enabled}

\* A frame was rendered: get_monitors_canvas returned or panicked.
Rendered == last.op = "render"

\* C6: with no enabled monitor get_monitors_canvas does not panic and returns
\* the margin around the origin, x_bounds = y_bounds = [-50, 50], in order.
C6_EmptyCanvas ==
    (Rendered /\ Enabled(monitors) = {})
      => /\ ~crashed /\ canvas # None
         /\ canvas[1].x_bounds = <<ToF64(-Margin), ToF64(Margin)>>
         /\ canvas[1].y_bounds = <<ToF64(-Margin), ToF64(Margin)>>
         /\ canvas[1].x_bounds[1] <= canvas[1].x_bounds[2]
         /\ canvas[1].y_bounds[1] <= canvas[1].y_bounds[2]

\* The enabled monitors all have a mode, a position and a scale.
Resolvable(mons) ==
    \A i \in Enabled(mons) :
        ResolveMode(mons[i]) # None /\ mons[i].position # None /\ mons[i].scale # None

\* C7: for a non-empty enabled set with mode, position and scale, at any
\* positions, the canvas is the minimal bounding box of the logical
\* rectangles expanded by 50 on every side; disabled monitors do not count.
C7_BoundingBox ==
    (Rendered /\ Enabled(monitors) # {} /\ Resolvable(monitors))
      => /\ canvas # None
         /\ LET G(i) == get_geometry(monitors[i])
                xb   == canvas[1].x_bounds
                yb   == canvas[1].y_bounds
            IN  /\ \A i \in Enabled(monitors) :
                      /\ xb[1] <= G(i).x - ToF64(Margin)
                      /\ xb[2] >= G(i).x + G(i).w + ToF64(Margin)
                      /\ yb[1] <= G(i).y - ToF64(Margin)
                      /\ yb[2] >= G(i).y + G(i).h + ToF64(Margin)
                /\ \E i \in Enabled(monitors) : xb[1] = G(i).x - ToF64(Margin)
                /\ \E i \in Enabled(monitors) : xb[2] = G(i).x + G(i).w + ToF64(Margin)
                /\ \E i \in Enabled(monitors) : yb[1] = G(i).y - ToF64(Margin)
                /\ \E i \in Enabled(monitors) : yb[2] = G(i).y + G(i).h + ToF64(Margin)

\* C8: for every enabled monitor with a mode and a position the rectangle
\* used by get_monitors_canvas is (x, x+w, y, y+h) of get_geometry, also when
\* the scale is absent, and neither fails.
C8_SameRectangle ==
    Rendered =>
      \A i \in Enabled(monitors) :
         (ResolveMode(monitors[i]) # None /\ monitors[i].position # None)
           => LET g == get_geometry(monitors[i])
                  r == CanvasRect(monitors[i])
              IN  /\ ~g.panic /\ ~r.panic
                  /\ r.left = g.x /\ r.right = g.x + g.w
                  /\ r.bottom = g.y /\ r.top = g.y + g.h

WithTransform(m, t) == [m EXCEPT !.transform = t]

\* C9: for every monitor with a resolvable mode the extent of get_geometry
\* under rotation 90 or 270 is the width/height swap of the extent under
\* rotation 0 or 180, each the pixels of the mode divided by the scale; the
\* current mode is taken before the preferred one.
C9_RotationSwap ==
    \A i \in 1..Len(monitors) :
       LET m == monitors[i] IN
       (ResolveMode(m) # None /\ m.position # None) =>
          LET g0   == get_geometry(WithTransform(m, None))
              g180 == get_geometry(WithTransform(m, Some("180")))
              g90  == get_geometry(WithTransform(m, Some("90")))
              g270 == get_geometry(WithTransform(m, Some("270")))
              cur  == CurrentFlags(m)
              pre  == {j \in 1..Len(m.modes) : m.modes[j].preferred}
              res  == IF cur # {} THEN m.modes[CHOOSE j \in cur : \A k \in cur : j <= k]
                      ELSE m.modes[CHOOSE j \in pre : \A k \in pre : j <= k]
              sc   == IF m.scale = None THEN ScaleDen ELSE m.scale[1]
          IN  /\ g0.w * sc = res.width * Unit * ScaleDen
              /\ g0.h * sc = res.height * Unit * ScaleDen
              /\ g180.w = g0.w /\ g180.h = g0.h
              /\ g90.w = g0.h /\ g90.h = g0.w
              /\ g270.w = g0.h /\ g270.h = g0.w
              /\ get_geometry(m).w = (IF from_transform(m.transform) \in {"Deg90", "Deg270"}
                                      THEN g0.h ELSE g0.w)

\* A snap that found a target for a rotated monitor whose current mode is not
\* square and differs from its preferred mode.
C9_Witness ==
    /\ SnapReturned /\ last.best.found
    /\ LET m == last.before[last.selected + 1] IN
       /\ m.transform = Some("90")
       /\ Len(m.modes) = 2 /\ m.modes[2].current /\ m.modes[1].preferred
       /\ m.modes[2].width # m.modes[2].height
       /\ get_geometry(m).w = Logical(m.modes[2].height, IF m.scale = None THEN ScaleDen ELSE m.scale[1])

\* C11: a snap whose selected monitor has neither a current nor a preferred
\* mode changes the position of no monitor.
C11_ModelessSnapRefused ==
    (last.op = "snap" /\ ResolveMode(last.before[last.selected + 1]) = None)
      => monitors = last.before

\* The monitors that are disabled.
Disabled(mons) == {i \in 1..Len(mons) : ~mons[i].enabled}

\* C12: for every disabled monitor of a list that was exported, whatever its
\* modes, position and scale, to_hyprland_config does not fail and returns
\* the disabled-marker line keyed by the monitor's name.
C12_DisabledLine ==
    last.op = "write" =>
        \A i \in Disabled(last.before) :
            /\ ~to_hyprland_config(last.before[i]).panic
            /\ to_hyprland_config(last.before[i]).line.disabled
            /\ to_hyprland_config(last.before[i]).line.name = last.before[i].name

\* Every monitor of the list can be exported.
Exportable(mons) == \A i \in 1..Len(mons) : ~to_hyprland_config(mons[i]).panic

\* The 'w' key was handled and writing the config file hit an I/O error: the
\* open failed, or a writeln failed before every line was written.
WriteIoError ==
    /\ last.op = "write" /\ Exportable(last.before)
    /\ (~last.io.open \/ last.io.written < Len(last.before))

\* C13: when handling 'w' meets an I/O error on the config file, the handler
\* returns normally (no crash), exit stays false and the monitor list is
\* unchanged.
C13_SaveFailureSurvives ==
    WriteIoError => (~crashed /\ ~exit /\ monitors = last.before)

\* The last event handled writes the persisted state, its handler returned and
\* the write of the state file succeeded.
StateSaved ==
    /\ \/ last.op = "esc" /\ last.axis = "Move"
       \/ last.op = "write"
       \/ last.op = "quit"
    /\ ~crashed /\ last.io.state

\* C14: after Esc in Move mode, 'w' or 'q' in any mode, with the write
\* succeeding, the persisted state is the list of (name, position, scale) of
\* the in-memory monitors in list order; once the session has exited with its
\* last write succeeding, the persisted state holds the positions left by
\* every earlier free move and snap.
C14_StatePersisted ==
    /\ StateSaved => load_monitor_state(state_file) = Some(MonitorStates(monitors))
    /\ (exit /\ last.io.state) =>
          LET persisted == load_monitor_state(state_file) IN
          /\ persisted # None /\ Len(persisted[1]) = Len(monitors)
          /\ \A i \in 1..Len(monitors) :
                /\ persisted[1][i].name = monitors[i].name
                /\ persisted[1][i].position = monitors[i].position
                /\ persisted[1][i].scale = monitors[i].scale

\* The session exited right after a free move or a snap changed a position, and
\* the state file holds the changed position.
C14_Witness ==
    /\ exit /\ last.io.state /\ last.op = "quit" /\ last.axis = "Move"
    /\ last.prev.op \in {"move", "snap"}
    /\ last.prev.before # monitors
    /\ load_monitor_state(state_file) # None
    /\ load_monitor_state(state_file)[1][last.selected + 1].position
          = monitors[last.selected + 1].position
    /\ load_monitor_state(state_file)[1][last.selected + 1].position
          # last.prev.before[last.selected + 1].position

\* ------------------------------------------- saving and loading the state
\* Monitor lists whose state is saved: the two monitors of
\* test_save_and_load_monitor_state, absent positions and scales, negative
\* coordinates, lists that differ in fields outside MonitorState, no monitor.
SavedMonitors ==
    {Mon("HDMI-A-1", TRUE, <<>>, Pos(100, 200), Some(6), None),
     Mon("HDMI-A-1", FALSE, <<Mode(4, 2, TRUE, TRUE)>>, Pos(100, 200), Some(6), Some("90")),
     Mon("HDMI-A-1", TRUE, <<>>, None, None, None),
     Mon("HDMI-A-1", TRUE, <<>>, Pos(-5, 0), None, None)}

StateLists ==
    {<<>>} \cup {<<a>> : a \in SavedMonitors}
           \cup {<<a, Mon("DP-1", TRUE, <<>>, position, Some(4), None)>> :
                    a \in SavedMonitors, position \in {Pos(300, 400), None}}
           \cup {<<Mon("DP-1", TRUE, <<>>, Pos(300, 400), Some(4), None), a>> :
                    a \in SavedMonitors}

\* State files left by an earlier session or edited by hand: none, the state of
\* another layout, a record without its optional fields and with an unknown
\* key, a record without name, a document that is no array.
StateFiles ==
    {None,
     Some(to_string_pretty(MonitorStates(
        <<Mon("DP-1", TRUE, <<>>, Pos(0, 0), Some(8), None)>>))),
     Some(JArr(<<JObj(<<Member("name", JStr("DP-1")), Member("enabled", JStr("yes"))>>)>>)),
     Some(JArr(<<JObj(<<Member("position", JNull), Member("scale", JNum(4))>>)>>)),
     Some(JStr("monitors"))}

InitRoundTrip ==
    /\ monitors \in StateLists
    /\ state_file \in StateFiles
    /\ selected_monitor = 0 /\ selected_resolution = 0 /\ selected_scale = 0
    /\ mode = "View" /\ exit = FALSE /\ crashed = FALSE
    /\ config_file = None /\ canvas = None /\ loaded = None
    /\ last = [op |-> "init", axis |-> "-", direction |-> 0, best |-> NoBest,
               before |-> <<>>, selected |-> 0, io |-> NoIo, prev |-> NoEvent]
    /\ steps = 0

\* A call of Configuration::save_monitor_state(&monitors).
SaveMonitorState(ioOk) ==
    /\ steps < MaxSteps
    /\ state_file' = save_monitor_state(monitors, state_file, ioOk)
    /\ last' = EventIo("save_monitor_state", "-", 0, NoBest, [NoIo EXCEPT !.state = ioOk])
    /\ steps' = steps + 1
    /\ UNCHANGED <<monitors, selected_monitor, selected_resolution, selected_scale,
                   mode, exit, crashed, config_file, canvas, loaded>>

\* A call of Configuration::load_monitor_state().
LoadMonitorState ==
    /\ steps < MaxSteps
    /\ loaded' = load_monitor_state(state_file)
    /\ last' = Event("load_monitor_state", "-", 0, NoBest)
    /\ steps' = steps + 1
    /\ UNCHANGED <<monitors, selected_monitor, selected_resolution, selected_scale,
                   mode, exit, crashed, state_file, config_file, canvas>>

NextRoundTrip ==
    \/ \E ioOk \in BOOLEAN : SaveMonitorState(ioOk)
    \/ LoadMonitorState

SpecRoundTrip == InitRoundTrip /\ [][NextRoundTrip]_vars

\* load_monitor_state was called right after a save_monitor_state that wrote
\* the file.
SavedThenLoaded ==
    /\ last.op = "load_monitor_state"
    /\ last.prev.op = "save_monitor_state" /\ last.prev.io.state

\* The keys of the members of a JSON object, in order.
Keys(obj) == [j \in 1..Len(obj.items) |-> obj.items[j].key]

\* C15: save_monitor_state followed by load_monitor_state yields one record per
\* monitor, in list order, each equal to the monitor on name, position and
\* scale, an absent position or scale being loaded as absent; the file holds
\* the members name, position and scale only, so lists that agree on these
\* fields are saved as the same file.
C15_RoundTrip ==
    SavedThenLoaded =>
        /\ loaded # None /\ Len(loaded[1]) = Len(monitors)
        /\ \A i \in 1..Len(monitors) :
              /\ loaded[1][i].name = monitors[i].name
              /\ loaded[1][i].position = monitors[i].position
              /\ loaded[1][i].scale = monitors[i].scale
              /\ DOMAIN loaded[1][i] = {"name", "position", "scale"}
              /\ Keys(state_file[1].items[i]) = <<"name", "position", "scale">>
        /\ \A other \in StateLists :
              MonitorStates(other) = MonitorStates(monitors)
                  => save_monitor_state(other, None, TRUE) = state_file

\* The round trip of a list of two whose first monitor has neither position nor
\* scale.
C15_Witness ==
    /\ SavedThenLoaded /\ Len(monitors) = 2
    /\ monitors[1].position = None /\ monitors[1].scale = None
    /\ loaded # None
    /\ loaded[1][1].position = None /\ loaded[1][1].scale = None
    /\ loaded[1][2] = [name |-> "DP-1", position |-> Pos(300, 400), scale |-> Some(4)]

\* C16: the mode changes only by 'm', 'r', 's' in View (to Move, Resolution,
\* Scale) and by Esc in Move, Resolution or Scale (to View); 'q' sets exit in
\* every mode, and 'q' and 'w' reach no mode handler: they change neither the
\* mode, nor the selection, nor a monitor; in Move mode no key but Esc changes
\* the mode and no key changes selected_monitor.
C16_ModeMachine ==
    [][/\ last'.op = "enter" =>
            /\ mode = "View" /\ mode' = last'.axis
            /\ mode' \in {"Move", "Resolution", "Scale"}
       /\ last'.op = "esc" =>
            (mode \in {"Move", "Resolution", "Scale"} /\ mode' = "View")
       /\ last'.op = "quit" => exit'
       /\ last'.op \in {"quit", "write"} =>
            /\ mode' = mode /\ monitors' = monitors
            /\ selected_monitor' = selected_monitor
            /\ selected_resolution' = selected_resolution
            /\ selected_scale' = selected_scale
       /\ (mode = "Move" /\ last'.op # "esc") => mode' = "Move"
       /\ mode = "Move" => selected_monitor' = selected_monitor
       /\ mode' # mode => last'.op \in {"enter", "esc"}
       /\ exit' # exit => last'.op = "quit"]_vars

\* The session went through Move mode, left it with Esc and quit from View.
C16_Witness ==
    /\ exit /\ mode = "View" /\ last.op = "quit" /\ last.axis = "View"
    /\ last.prev.op = "esc" /\ last.prev.axis = "Move"
    /\ load_monitor_state(state_file) = Some(MonitorStates(monitors))

\* C17: whenever the config file has been written it holds exactly one line
\* per monitor of the list, in list order: right after a save the lines of the
\* monitors as exported, and in no state the lines of a proper prefix only.
C17_CompleteRewrite ==
    config_file # None =>
        /\ Len(config_file[1]) = Len(monitors)
        /\ last.op = "write" =>
              \A i \in 1..Len(config_file[1]) :
                  config_file[1][i] = to_hyprland_config(last.before[i]).line

\* C18: whenever a snap selects a valid candidate, the change applied to the
\* selected monitor's coordinate on the axis is non-zero and has the sign of
\* the requested direction (stated for a selected monitor that has a mode).
C18_SnapProgress ==
    (/\ SnapReturned /\ last.best.found
     /\ ResolveMode(last.before[last.selected + 1]) # None)
      => (Coordinate(monitors[last.selected + 1], last.axis)
            - Coordinate(last.before[last.selected + 1], last.axis))
         * last.direction > 0

\* The last event handled was a free move or a snap.
Moved == last.op \in {"move", "snap"}

OtherAxis(axis) == IF axis = "v" THEN "h" ELSE "v"

\* C19: a free move or a snap on one axis changes at most the selected
\* monitor's position component on that axis: every other monitor, and the
\* selected monitor's other coordinate, scale, modes, enabled flag, transform
\* and name, are as before, as are selected_monitor and the mode; a free move
\* on a monitor without position changes nothing.
C19_MoveFrame ==
    Moved =>
        LET b == last.before[last.selected + 1]
            a == monitors[last.selected + 1]
        IN  /\ Len(monitors) = Len(last.before)
            /\ \A i \in 1..Len(monitors) :
                  i # last.selected + 1 => monitors[i] = last.before[i]
            /\ [a EXCEPT !.position = b.position] = b
            /\ (b.position = None) = (a.position = None)
            /\ b.position # None =>
                  Coordinate(a, OtherAxis(last.axis)) = Coordinate(b, OtherAxis(last.axis))
            /\ selected_monitor = last.selected
            /\ mode = "Move"
            /\ (last.op = "move" /\ b.position = None) => monitors = last.before

\* A snap moved the second monitor of a list of three along x only.
C19_Witness ==
    /\ last.op = "snap" /\ last.axis = "h" /\ Len(monitors) = 3
    /\ last.selected = 1 /\ last.before[2].position # None
    /\ monitors[2].position # last.before[2].position
    /\ monitors[2].position[1].y = last.before[2].position[1].y
    /\ monitors[1] = last.before[1] /\ monitors[3] = last.before[3]

\* --------------------------------------------- snapping and list order
\* The orders of a list of n monitors, a list in another order, and the index
\* of the selected monitor in it.
Orders(n) == {p \in [1..n -> 1..n] : \A i, j \in 1..n : p[i] = p[j] => i = j}
Reordered(mons, p) == [i \in 1..Len(mons) |-> mons[p[i]]]
IndexIn(p, sel) == (CHOOSE i \in DOMAIN p : p[i] = sel + 1) - 1

\* Layouts of three monitors: the selected monitor A, and B and C, whose edges
\* may coincide (B's far edge and C's near edge at x = 3), be fractional, or
\* belong to a disabled or position-less monitor.
SnapLayouts ==
    {<<a, b, c>> :
        a \in {Mon("A", TRUE, <<Mode(4, 2, TRUE, TRUE)>>, Pos(4, 0), None, None),
               Mon("A", TRUE, <<Mode(4, 2, TRUE, TRUE)>>, Pos(5, 1), Some(8), None)},
        b \in {Mon("B", TRUE, <<Mode(3, 3, TRUE, TRUE)>>, Pos(0, 0), Some(4), None),
               Mon("B", TRUE, <<Mode(3, 3, TRUE, TRUE)>>, Pos(0, 0), Some(8), None),
               Mon("B", FALSE, <<Mode(3, 3, TRUE, TRUE)>>, Pos(2, 0), Some(4), None),
               Mon("B", TRUE, <<Mode(3, 3, TRUE, TRUE)>>, None, Some(4), None)},
        c \in {Mon("C", TRUE, <<Mode(2, 2, TRUE, TRUE)>>, Pos(3, 5), Some(4), None),
               Mon("C", TRUE, <<Mode(2, 2, TRUE, TRUE)>>, Pos(9, 2), Some(4), None)}}

\* Every layout in every list order, as discovery may report it.
SnapLists == {Reordered(layout, p) : layout \in SnapLayouts, p \in Orders(3)}

\* Move mode was entered with monitor A selected.
InitSnap ==
    /\ monitors \in SnapLists
    /\ selected_monitor \in {i \in 0..2 : monitors[i + 1].name = "A"}
    /\ selected_resolution = 0 /\ selected_scale = 0
    /\ mode = "Move" /\ exit = FALSE /\ crashed = FALSE
    /\ state_file = None /\ config_file = None /\ canvas = None /\ loaded = None
    /\ last = [op |-> "init", axis |-> "-", direction |-> 0, best |-> NoBest,
               before |-> <<>>, selected |-> 0, io |-> NoIo, prev |-> NoEvent]
    /\ steps = 0

NextSnap == \E axis \in {"v", "h"}, direction \in {-1, 1} : MapSnap(axis, direction)

SpecSnap == InitSnap /\ [][NextSnap]_vars

\* C20: the snap of the same selected monitor among the same other monitors
\* in any other list order finds the same displacement and leaves the selected
\* monitor at the same position (and fails in the same cases).
C20_OrderIndependent ==
    last.op = "snap" =>
        \A p \in Orders(Len(last.before)) :
            LET mons == Reordered(last.before, p)
                sel  == IndexIn(p, last.selected)
                best == best_delta(mons, sel, last.axis, last.direction)
            IN  /\ SnapPanics(mons, sel) = crashed
                /\ best.found = last.best.found
                /\ best.diff = last.best.diff
                /\ SnapMonitors(mons, sel, last.axis, last.direction)[sel + 1]
                      = monitors[last.selected + 1]

\* A snap moved the selected monitor where an edge of B and an edge of C both
\* give the chosen displacement, so that the pair remembered depends on the
\* order of B and C in the list.
C20_Witness ==
    /\ SnapReturned /\ last.best.found /\ Len(last.before) = 3
    /\ monitors # last.before
    /\ \E i, j \in OtherEnabled(last.before, last.selected) :
          /\ i # j
          /\ \E s1, s2 \in AlignPoints(last.before[last.selected + 1], last.axis) :
                /\ s1 + last.best.diff \in AlignPoints(last.before[i], last.axis)
                /\ s2 + last.best.diff \in AlignPoints(last.before[j], last.axis)

====
